---- MODULE Spec2Model ----
(***************************************************************************)
(* Model of the streaming turn pipeline of weagi_inference_service:        *)
(* service::chat::handle_user_message (credit gate, validation, provider   *)
(* stream decoding, relay to the client channel, persistence, billing      *)
(* notification) and repositories::conversation::add_message.              *)
(*                                                                         *)
(* Strings are sequences of one-character strings.  The provider's wire    *)
(* text is a sequence of tokens: "P" is the literal prefix "data: ", "D"   *)
(* the literal "[DONE]", "T" the closing text that completes a JSON body,  *)
(* "J" text that is not JSON, and a head token is a JSON body up to (not   *)
(* including) its closing text.  A transport chunk is the sequence of the  *)
(* pieces str::split("\n") yields for it.                                  *)
(***************************************************************************)
EXTENDS Integers, Sequences, FiniteSets, TLC

\* ---------------------------------------------------------------- bounds
\* Largest number of stored turns (user/assistant pairs) before the request.
MaxTurns == 2
\* Largest number of transport chunks the provider stream yields.
MaxChunks == 2

\* ------------------------------------------------------ program constants
PriceFull == 15
PriceMini == 1
TitleCap == 30
TitleWords == 3

\* config::constant::MODEL_TO_PRICE
Models == {"gpt-4o", "gpt-4o-2024-05-13", "gpt-4o-2024-08-06", "gpt-4o-mini"}
MODEL_TO_PRICE == [m \in Models |-> IF m = "gpt-4o-mini" THEN PriceMini ELSE PriceFull]

\* ---------------------------------------------------------- string helpers
RECURSIVE Flatten(_)
Flatten(ss) == IF ss = <<>> THEN <<>> ELSE Head(ss) \o Flatten(Tail(ss))

Take(s, n) == SubSeq(s, 1, IF Len(s) < n THEN Len(s) ELSE n)

IsWhitespace(c) == c \in {" ", "\n", "\t", "\r"}

\* str::split_whitespace: the maximal runs of non-whitespace characters.
RECURSIVE SplitWs(_, _, _)
SplitWs(s, cur, acc) ==
    IF s = <<>> THEN (IF cur = <<>> THEN acc ELSE Append(acc, cur))
    ELSE IF IsWhitespace(Head(s))
         THEN SplitWs(Tail(s), <<>>, IF cur = <<>> THEN acc ELSE Append(acc, cur))
         ELSE SplitWs(Tail(s), Append(cur, Head(s)), acc)
split_whitespace(s) == SplitWs(s, <<>>, <<>>)

\* [&str]::join(" ")
RECURSIVE JoinSp(_)
JoinSp(ws) ==
    IF ws = <<>> THEN <<>>
    ELSE IF Len(ws) = 1 THEN ws[1]
    ELSE ws[1] \o <<" ">> \o JoinSp(Tail(ws))

\* ------------------------------------------------------------ wire format
\* JSON bodies without their closing text: "Ha", "Hb" carry a content delta,
\* "Hn" has choices[0].delta without content, "He" has an empty choices array.
\* "Va".."Ve" carry the deltas of a spoken answer.
VoiceHeads == {"Va", "Vb", "Vc", "Vd", "Ve"}
HeadTokens == {"Ha", "Hb", "Hn", "He"} \cup VoiceHeads
\* "Hello wor", "ld. How are", " you?\n", "No.", "Yes! Ok? "
VoiceContent ==
    [Va |-> <<"H", "e", "l", "l", "o", " ", "w", "o", "r">>,
     Vb |-> <<"l", "d", ".", " ", "H", "o", "w", " ", "a", "r", "e">>,
     Vc |-> <<" ", "y", "o", "u", "?", "\n">>,
     Vd |-> <<"N", "o", ".">>,
     Ve |-> <<"Y", "e", "s", "!", " ", "O", "k", "?", " ">>]
ContentOf(h) ==
    IF h = "Ha" THEN <<"H", "i">> ELSE IF h = "Hb" THEN <<"!">>
    ELSE IF h \in VoiceHeads THEN VoiceContent[h] ELSE <<>>
HasContent(h) == h \in {"Ha", "Hb"} \cup VoiceHeads
HasChoice(h) == h # "He"

Frame(h) == <<"P", h, "T">>
EmptyLine == <<>>
DoneLine == <<"P", "D">>
JunkLine == <<"P", "J">>

\* The transport chunks the provider stream may yield, each as its split("\n") pieces.
ChunkSet ==
    { <<Frame("Ha"), EmptyLine>>,
      <<Frame("Hb"), EmptyLine>>,
      <<Frame("Ha"), EmptyLine, Frame("Hb"), EmptyLine, EmptyLine>>,
      << <<"P", "Ha">> >>,
      << <<"T">>, EmptyLine >>,
      <<DoneLine, EmptyLine>>,
      <<DoneLine, Frame("Hb"), EmptyLine>>,
      <<JunkLine, Frame("Ha"), EmptyLine>>,
      <<JunkLine, EmptyLine>>,
      <<Frame("Hn"), EmptyLine>>,
      <<Frame("He"), Frame("Ha"), EmptyLine>>,
      << <<"P", "Ha">>, <<"P", "T">>, EmptyLine >> }

\* The chunks of a spoken answer.
VoiceChunkSet ==
    { <<Frame("Va"), EmptyLine>>,
      <<Frame("Va"), EmptyLine, Frame("Vb"), EmptyLine>>,
      <<Frame("Vb"), EmptyLine>>,
      <<Frame("Vc"), EmptyLine>>,
      <<Frame("Vd"), EmptyLine>>,
      <<Frame("Ve"), EmptyLine>>,
      <<Frame("Vc"), EmptyLine, DoneLine, EmptyLine>> }

\* A chunk whose bytes are not valid UTF-8.
InvalidChunk == << <<"X">> >>

\* str::strip_prefix("data: ")
HasDataPrefix(line) == line # <<>> /\ Head(line) = "P"
strip_prefix(line) == Tail(line)

\* serde_json::from_str::<ChatCompletionChunk>: Ok only for one complete JSON body.
ParseOk(body) == Len(body) = 2 /\ body[1] \in HeadTokens /\ body[2] = "T"

\* A channel that hands the newest message out first.
Send_lifo(chan, alive, msg) == IF alive THEN <<msg>> \o chan ELSE chan

\* mpsc::Sender::send: the message is queued iff the receiver is alive.
DataMsg(bytes) == [kind |-> "data", bytes |-> bytes]
ErrorMsg == [kind |-> "error", bytes |-> <<>>]
Send(chan, alive, msg) == IF alive THEN Append(chan, msg) ELSE chan

\* ------------------------------------------------------------ voice relay
\* Regex `[.!?]\s+|\n|\r\n` anchored at position p of buf: the position of the
\* last character of the match, 0 when there is none. `\s+` is greedy.
RECURSIVE WsRunEnd(_, _)
WsRunEnd(buf, i) ==
    IF i < Len(buf) /\ IsWhitespace(buf[i + 1]) THEN WsRunEnd(buf, i + 1) ELSE i
MatchEndAt(buf, p) ==
    IF buf[p] \in {".", "!", "?"} /\ p < Len(buf) /\ IsWhitespace(buf[p + 1])
    THEN WsRunEnd(buf, p + 1)
    ELSE IF buf[p] = "\n" THEN p
    ELSE IF buf[p] = "\r" /\ p < Len(buf) /\ buf[p + 1] = "\n" THEN p + 1
    ELSE 0

\* Regex::find: the leftmost match; its end, or 0.
RECURSIVE FindFrom(_, _)
FindFrom(buf, p) ==
    IF p > Len(buf) THEN 0
    ELSE IF MatchEndAt(buf, p) # 0 THEN MatchEndAt(buf, p)
    ELSE FindFrom(buf, p + 1)
\* A search that returns the rightmost match.
RECURSIVE FindLastFrom(_, _)
FindLastFrom(buf, p) ==
    IF p < 1 THEN 0
    ELSE IF MatchEndAt(buf, p) # 0 THEN MatchEndAt(buf, p)
    ELSE FindLastFrom(buf, p - 1)
sentence_regex_find_last(buf) == FindLastFrom(buf, Len(buf))

sentence_regex_find(buf) == FindFrom(buf, 1)

\* What one synthesis attempt can do: Deepgram::new fails ("noclient"),
\* speak_to_stream fails ("error"), or the audio stream yields n frames.
\* An audio stream that ends at once, and one of two frames.
FrameCounts == {0, 2}
TtsOutcomes ==
    {[kind |-> "noclient", frames |-> 0], [kind |-> "error", frames |-> 0]}
        \cup {[kind |-> "ok", frames |-> n] : n \in FrameCounts}
\* The outcomes of the attempts made while one chunk is processed, in order.
Oracles == TtsOutcomes \X TtsOutcomes
\* A relay that asks for the self-contained container every time.
Container_always_wav(is_started) == "wav"

\* Container::Wav for the first request built, "none" afterwards (chat.rs 394-402).
Container(is_started) == IF is_started THEN "none" ELSE "wav"
\* The log of the relay: one "speak" event per sentence drained from the
\* buffer, with the container requested (none when no request was built) and
\* the outcome, and one "frame" event per frame the audio stream yielded.
SpeakEvent(sentence, container, outcome) ==
    [kind |-> "speak", sentence |-> sentence, container |-> container,
     outcome |-> outcome, call |-> 0, part |-> 0]
AudioFrame(call, part) == [call |-> call, part |-> part]
FrameEvent(frame) ==
    [kind |-> "frame", sentence |-> <<>>, container |-> "", outcome |-> "",
     call |-> frame.call, part |-> frame.part]
SpeakCount(log) == Len(SelectSeq(log, LAMBDA e : e.kind = "speak"))

\* A relay that forwards the frames of a call last to first.
RECURSIVE Forward_reversed(_, _, _, _)
Forward_reversed(alive, st, n, k) ==
    IF k > n THEN st
    ELSE LET frame == AudioFrame(SpeakCount(st.log), n + 1 - k)
             st1 == [st EXCEPT !.total_voice = Append(@, frame),
                               !.log = Append(@, FrameEvent(frame))]
         IN  IF alive
             THEN Forward_reversed(alive,
                      [st1 EXCEPT !.channel = Send(@, alive, DataMsg(<<frame>>)),
                                  !.sent = Append(@, DataMsg(<<frame>>))],
                      n, k + 1)
             ELSE [st1 EXCEPT !.halt = "abort"]

\* `while let Some(data) = audio_stream.next().await`: frames k..n of the call.
RECURSIVE Forward(_, _, _, _)
Forward(alive, st, n, k) ==
    IF k > n THEN st
    ELSE LET frame == AudioFrame(SpeakCount(st.log), k)
             st1 == [st EXCEPT !.total_voice = Append(@, frame),
                               !.log = Append(@, FrameEvent(frame))]
         IN  IF alive
             THEN Forward(alive,
                      [st1 EXCEPT !.channel = Send(@, alive, DataMsg(<<frame>>)),
                                  !.sent = Append(@, DataMsg(<<frame>>))],
                      n, k + 1)
             ELSE [st1 EXCEPT !.halt = "abort"]

\* A drain that empties the buffer.
drain_all(buf, end) == <<>>

\* What `buffer.drain(..pos.end())` leaves in the buffer (chat.rs 378-379).
drain(buf, end) == SubSeq(buf, end + 1, Len(buf))

\* A relay that gives the turn up when a synthesis request fails.
RECURSIVE Speak_aborting(_, _)
Speak_aborting(alive, st) ==
    LET end == sentence_regex_find(st.buffer)
    IN  IF end = 0 \/ st.halt # "run" THEN st
        ELSE LET sentence == SubSeq(st.buffer, 1, end)
                 outcome == Head(st.oracle)
                 called == [st EXCEPT !.buffer = drain(@, end),
                                      !.oracle = Tail(@),
                                      !.is_started = TRUE,
                                      !.log = Append(@, SpeakEvent(sentence,
                                                         Container(st.is_started),
                                                         outcome.kind))]
             IN  IF outcome.kind # "ok" THEN [called EXCEPT !.halt = "abort"]
                 ELSE Speak_aborting(alive, Forward(alive, called, outcome.frames, 1))

\* `while let Some(pos) = sentence_regex.find(&buffer)` (chat.rs 377-418).
RECURSIVE Speak(_, _)
Speak(alive, st) ==
    LET end == sentence_regex_find(st.buffer)
    IN  IF end = 0 \/ st.halt # "run" THEN st
        ELSE LET sentence == SubSeq(st.buffer, 1, end)
                 outcome == Head(st.oracle)
                 drained == [st EXCEPT !.buffer = drain(@, end),
                                       !.oracle = Tail(@)]
             IN  IF outcome.kind = "noclient"
                 THEN Speak(alive,
                          [drained EXCEPT
                              !.log = Append(@, SpeakEvent(sentence, "", "noclient"))])
                 ELSE LET called ==
                              [drained EXCEPT
                                  !.is_started = TRUE,
                                  !.log = Append(@, SpeakEvent(sentence,
                                                     Container(st.is_started),
                                                     outcome.kind))]
                      IN  IF outcome.kind = "error" THEN Speak(alive, called)
                          ELSE Speak(alive, Forward(alive, called, outcome.frames, 1))

\* The body of `for p in s.split("\n")`, from piece i on.
\* st = [cached_str, total_content, channel, halt, done] and, for the voice
\* relay, [voice, buffer, is_started, total_voice, log, oracle]; sent lists the
\* messages tx.send accepted. halt is "run", "break" (the for loop was left at
\* [DONE]) or "abort" (the task returned Err(())).
RECURSIVE ProcessLines(_, _, _, _)
ProcessLines(lines, i, alive, st) ==
    IF i > Len(lines) \/ st.halt # "run" THEN st
    ELSE IF ~HasDataPrefix(lines[i]) THEN ProcessLines(lines, i + 1, alive, st)
    ELSE LET p == strip_prefix(lines[i])
             joined == st.cached_str \o p
         IN  IF p = <<"D">>
             THEN [st EXCEPT !.halt = "break", !.done = TRUE]
             ELSE IF ~ParseOk(joined)
             THEN ProcessLines(lines, i + 1, alive, [st EXCEPT !.cached_str = joined])
             ELSE IF ~HasChoice(joined[1])
             THEN ProcessLines(lines, i + 1, alive, st)
             ELSE IF ~HasContent(joined[1])
             THEN ProcessLines(lines, i + 1, alive, [st EXCEPT !.cached_str = <<>>])
             ELSE LET content == ContentOf(joined[1])
                      st1 == [st EXCEPT !.cached_str = <<>>,
                                        !.total_content = @ \o content]
                  IN  IF st.voice
                      THEN ProcessLines(lines, i + 1, alive,
                               Speak(alive, [st1 EXCEPT !.buffer = @ \o content]))
                      ELSE IF alive
                      THEN ProcessLines(lines, i + 1, alive,
                               [st1 EXCEPT !.channel = Send(@, alive, DataMsg(content)),
                                           !.sent = Append(@, DataMsg(content))])
                      ELSE [st1 EXCEPT !.halt = "abort"]

\* The task's locals at the start of a chunk: cached_str starts empty for
\* every chunk, the others are kept from chunk to chunk.
TaskLocals(voice, total, chan, sentLog, buf, started, voiceTotal, log, oracle) ==
    [cached_str |-> <<>>, total_content |-> total, channel |-> chan,
     halt |-> "run", done |-> FALSE, sent |-> sentLog, voice |-> voice,
     buffer |-> buf, is_started |-> started, total_voice |-> voiceTotal,
     log |-> log, oracle |-> oracle]

\* One Ok(result) item of the provider stream of a text turn, decoded as UTF-8.
ProcessChunk(lines, alive, total, chan) ==
    ProcessLines(lines, 1, alive,
        TaskLocals(FALSE, total, chan, <<>>, <<>>, FALSE, <<>>, <<>>, <<>>))

\* ------------------------------------------------------------------ store
Digit(i) == <<"0", "1", "2", "3", "4", "5", "6", "7", "8", "9">>[i + 1]
UserEntry(text) == [role |-> "user", content |-> text]
AssistantEntry(text) == [role |-> "assistant", content |-> text]

\* A conversation as m earlier committed turns left it: entry 2k-1 is the user
\* entry of turn k, entry 2k its assistant entry.
StoredEntry(i) ==
    IF i % 2 = 1 THEN UserEntry(<<"q", Digit(i)>>) ELSE AssistantEntry(<<"r", Digit(i)>>)
StoredConversation(m) == [i \in 1..(2 * m) |-> StoredEntry(i)]

\* repositories::conversation::new_conversation
DefaultTitle == <<"N", "e", "w", " ", "C", "h", "a", "t">>
NoRow == [exists |-> FALSE, conversation |-> <<>>, title |-> <<>>]
Row(conv, title) == [exists |-> TRUE, conversation |-> conv, title |-> title]
StoredRow(m) ==
    Row(StoredConversation(m), IF m = 0 THEN DefaultTitle ELSE StoredEntry(1).content)

\* `n as usize` for an i64 n: a negative n becomes n + 2^64, beyond any Vec length.
CastExceeds(n, len) == n < 0 \/ n > len

\* A character that UTF-8 encodes in three bytes; every other character of the
\* model is ASCII.
WideChar == "U+4E2D"
Utf8Width(c) == IF c = WideChar THEN 3 ELSE 1

\* str::len: the length of a String in bytes.
RECURSIVE ByteLen(_)
ByteLen(s) == IF s = <<>> THEN 0 ELSE Utf8Width(Head(s)) + ByteLen(Tail(s))

\* derive_title that derives the title whatever the truncation index.
derive_title_any_index(title, user_message, message_id) ==
    LET first_three_words == JoinSp(Take(split_whitespace(user_message), TitleWords))
    IN  IF ByteLen(first_three_words) > TitleCap THEN Take(title, TitleCap)
        ELSE first_three_words

\* derive_title that never replaces the title.
derive_title_unchanged(title, user_message, message_id) == title

\* The title add_message stores (conversation.rs 81-95): the join is measured
\* in bytes (`first_three_words.len()`), the old title is cut in characters
\* (`chars().take(30)`).
derive_title(title, user_message, message_id) ==
    IF message_id = 0
    THEN LET first_three_words == JoinSp(Take(split_whitespace(user_message), TitleWords))
         IN  IF ByteLen(first_three_words) > TitleCap THEN Take(title, TitleCap)
             ELSE first_three_words
    ELSE title

\* add_message that forgets to push the answer.
add_message_no_answer(row, user_message, answer, message_id) ==
    IF ~row.exists THEN [kind |-> "err", row |-> row]
    ELSE LET conv == row.conversation
             cut == message_id < Len(conv)
         IN  IF cut /\ CastExceeds(message_id, Len(conv))
             THEN [kind |-> "panic", row |-> row]
             ELSE LET kept == IF cut THEN SubSeq(conv, 1, message_id) ELSE conv
                  IN  [kind |-> "ok",
                       row |-> Row(Append(kept, UserEntry(user_message)),
                                   derive_title(row.title, user_message, message_id))]

\* repositories::conversation::add_message up to the update: "err" when the row
\* is absent, "panic" when Vec::split_off is called beyond the length.
add_message(row, user_message, answer, message_id) ==
    IF ~row.exists THEN [kind |-> "err", row |-> row]
    ELSE LET conv == row.conversation
             cut == message_id < Len(conv)
         IN  IF cut /\ CastExceeds(message_id, Len(conv))
             THEN [kind |-> "panic", row |-> row]
             ELSE LET kept == IF cut THEN SubSeq(conv, 1, message_id) ELSE conv
                  IN  [kind |-> "ok",
                       row |-> Row(kept \o <<UserEntry(user_message), AssistantEntry(answer)>>,
                                   derive_title(row.title, user_message, message_id))]

\* A lookup that filters on the conversation id alone.
find_by_conversation_id(row, row_user_id, uid) == row

\* conversation.rs 36-53, 63-74, 118-129: the row of the conversation id when
\* its user_id column is the caller's, None otherwise.
find_by_user_id_and_conversation_id(row, row_user_id, uid) ==
    IF row.exists /\ row_user_id = uid THEN row ELSE NoRow

\* The edit-target check of handle_user_message (chat.rs 180).
message_id_rejected(message_id, conv) == message_id >= Len(conv) \div 2

\* persist_index that keeps the user entry of the edited turn.
persist_index_keeps_user(message_id, conversation_list) ==
    IF message_id = -1 THEN Len(conversation_list) - 1 ELSE message_id * 2 + 1

\* persist_index that passes the turn index where the entry index is meant.
persist_index_undoubled(message_id, conversation_list) ==
    IF message_id = -1 THEN Len(conversation_list) - 1 ELSE message_id

\* The truncation index handle_user_message passes to add_message (chat.rs 483-487).
persist_index(message_id, conversation_list) ==
    IF message_id = -1 THEN Len(conversation_list) - 1 ELSE message_id * 2

\* ---------------------------------------------------------------- requests
Balances == {0, PriceMini, PriceFull}
Sessions ==
    {[present |-> FALSE, credits_remaining |-> 0]}
        \cup {[present |-> TRUE, credits_remaining |-> b] : b \in Balances}
\* The message types of the text pipeline; voice turns are VoiceRequests.
MessageTypes == {"text", "bogus"}
ModelNames == Models \cup {"gpt-3"}
ShortMessage == <<"h", "i", " ", "y", "o", "u", " ", "a", "l", "l", " ", "x">>
UserMessages == {ShortMessage}
Requests ==
    [session : Sessions, message_type : MessageTypes, message_model : ModelNames,
     message_id : (-2)..MaxTurns, message_data : UserMessages, utf8 : BOOLEAN]

\* Voice turns: message_data is the recorded audio, which is not UTF-8 text.
Audio == <<"R", "I", "F", "F">>
VoiceRequests ==
    [session : Sessions, message_type : {"voice"}, message_model : ModelNames,
     message_id : (-2)..MaxTurns, message_data : {Audio}, utf8 : {FALSE}]

\* -------------------------------------------------------------------- state
VARIABLES
    req,                \* the arguments of handle_user_message
    pc,                 \* position of the handler, then of the spawned task
    response,           \* status the handler returned (0: none yet, 200: the stream)
    credits_remaining,  \* the handler's local of that name
    user_message,       \* the handler's local of that name
    conversation_list,  \* the handler's local of that name
    store,              \* the committed conversation row
    store0,             \* the committed row when the request arrived
    txn,                \* the turn's transaction: "none", "open", "committed", "rolledback"
    txRow,              \* the row as the open transaction has written it
    providerCalls,      \* completion requests sent to the provider
    wire,               \* transport chunks read from the provider stream so far
    doneSeen,           \* a "[DONE]" frame has been read
    total_content,      \* the task's local of that name
    channel,            \* messages accepted by tx.send, in order
    rxAlive,            \* the receiving end of the channel still exists
    notified,           \* payloads the billing notifier accepted
    failure,            \* why the task ended without Ok ("none" while it has not)
    sttCalls,           \* transcription requests sent to the speech-to-text provider
    sent,               \* messages for which tx.send returned Ok, in the order of the calls
    buffer,             \* the segmenter's buffer of a voice turn
    is_started,         \* a synthesis request was built in this turn
    total_voice,        \* audio frames the synthesizer yielded
    ttsLog,             \* synthesis requests and the frames they yielded, in order
    savedFiles,         \* names of the files save_file wrote
    authBalance,        \* the balance the auth service holds for the user now
    user_id,            \* the user id of the turn's caller (user.uid)
    owner,              \* the user_id column of the conversation row
    created,            \* user ids of the rows create_new_conversation inserted
    ctl                 \* the last store operation of the controller and its result

vars == <<req, pc, response, credits_remaining, user_message, conversation_list,
          store, store0, txn, txRow, providerCalls, wire, doneSeen, total_content,
          channel, sent, rxAlive, notified, failure, sttCalls,
          buffer, is_started, total_voice, ttsLog, savedFiles, authBalance,
          user_id, owner, created, ctl>>

voiceVars == <<buffer, is_started, total_voice, ttsLog>>

ctlVars == <<user_id, owner, created, ctl>>

\* No controller operation has run.
NoCall ==
    [op |-> "none", uid |-> 0, result |-> 0, status |-> 0, tx |-> "none", body |-> <<>>]

reqVars == <<req, store0, credits_remaining, user_message, conversation_list>>
streamVars == <<wire, doneSeen, total_content>>

\* The caller owns the conversation the request names.
InitOwned ==
    /\ user_id = 1
    /\ owner = 1
    /\ created = <<>>
    /\ ctl = NoCall

InitTurn(requests, rows) ==
    /\ req \in requests
    /\ store \in rows
    /\ store0 = store
    /\ pc = "gate"
    /\ response = 0
    /\ credits_remaining = 0
    /\ user_message = <<>>
    /\ conversation_list = <<>>
    /\ txn = "none"
    /\ txRow = NoRow
    /\ providerCalls = 0
    /\ wire = <<>>
    /\ doneSeen = FALSE
    /\ total_content = <<>>
    /\ channel = <<>>
    /\ rxAlive = TRUE
    /\ notified = <<>>
    /\ failure = "none"
    /\ sttCalls = 0
    /\ sent = <<>>
    /\ buffer = <<>>
    /\ is_started = FALSE
    /\ total_voice = <<>>
    /\ ttsLog = <<>>
    /\ savedFiles = {}
    /\ authBalance = req.session.credits_remaining

InitWith(requests, rows) == InitTurn(requests, rows) /\ InitOwned

StoredRows == {NoRow} \cup {StoredRow(m) : m \in 0..MaxTurns}

Init == InitWith(Requests, StoredRows)

\* A transaction handle whose drop leaves the transaction as it is.
Dropped_keeps(t) == t

\* Dropping the DatabaseTransaction without commit rolls it back.
Dropped(t) == IF t = "open" THEN "rolledback" ELSE t

\* `return Err((status, ..))` of the handler.
Reject(status) ==
    /\ pc' = "rejected"
    /\ response' = status
    /\ txn' = Dropped(txn)

\* A task that returns Err(()) without sending the error message.
Fail_silent(cause) ==
    /\ pc' = "failed"
    /\ failure' = cause
    /\ channel' = channel
    /\ sent' = sent
    /\ txn' = Dropped(txn)

\* `let _ = tx.send(Err(..)).await; return Err(())` of the task.
Fail(cause) ==
    /\ pc' = "failed"
    /\ failure' = cause
    /\ channel' = Send(channel, rxAlive, ErrorMsg)
    /\ sent' = IF rxAlive THEN Append(sent, ErrorMsg) ELSE sent
    /\ txn' = Dropped(txn)

\* credit_gate that rejects a balance equal to the price.
credit_gate_strict(model, balance) ==
    IF model \in DOMAIN MODEL_TO_PRICE
    THEN IF MODEL_TO_PRICE[model] >= balance THEN 403 ELSE 0
    ELSE 400

\* credit_gate that prices an unknown model at zero.
credit_gate_default_zero(model, balance) ==
    IF model \in DOMAIN MODEL_TO_PRICE
    THEN IF MODEL_TO_PRICE[model] > balance THEN 403 ELSE 0
    ELSE 0

\* The price check of handle_user_message (chat.rs 106-131): the status it
\* returns, 0 when the turn is approved.
credit_gate(model, balance) ==
    IF model \in DOMAIN MODEL_TO_PRICE
    THEN IF MODEL_TO_PRICE[model] > balance THEN 403 ELSE 0
    ELSE 400

\* chat.rs 73-131: session, message type and credit checks.
CreditGate ==
    /\ pc = "gate"
    /\ UNCHANGED ctlVars
    /\ UNCHANGED authBalance
    /\ UNCHANGED voiceVars
    /\ UNCHANGED savedFiles
    /\ UNCHANGED sttCalls
    /\ UNCHANGED failure
    /\ IF ~req.session.present
       THEN Reject(401) /\ UNCHANGED credits_remaining
       ELSE IF req.message_type \notin {"text", "voice"}
       THEN Reject(400) /\ UNCHANGED credits_remaining
       ELSE LET status == credit_gate(req.message_model, req.session.credits_remaining)
            IN  /\ credits_remaining' =
                       IF req.message_model \in DOMAIN MODEL_TO_PRICE
                       THEN req.session.credits_remaining ELSE credits_remaining
                /\ IF status # 0 THEN Reject(status)
                   ELSE pc' = "decode" /\ UNCHANGED <<response, txn>>
    /\ UNCHANGED <<req, store0, user_message, conversation_list, store, txRow,
                   providerCalls, channel, sent, rxAlive, notified>>
    /\ UNCHANGED streamVars

\* What speech_to_text returns for the audio of a voice turn.
Transcription == <<"h", "i", " ", "y", "o", "u">>

\* chat.rs 132-146: the text of a text turn; the transcription of any other
\* turn, requested with the file name of the multipart field (`named`), whose
\* absence makes `voice_filename.clone().unwrap()` panic before the request.
DecodeUserMessage ==
    /\ pc = "decode"
    /\ UNCHANGED ctlVars
    /\ UNCHANGED authBalance
    /\ UNCHANGED voiceVars
    /\ UNCHANGED savedFiles
    /\ UNCHANGED failure
    /\ IF req.message_type = "text"
       THEN /\ UNCHANGED sttCalls
            /\ IF req.utf8
               THEN /\ user_message' = req.message_data
                    /\ pc' = "begin"
                    /\ UNCHANGED <<response, txn>>
               ELSE Reject(400) /\ UNCHANGED user_message
       ELSE \E named, ok \in BOOLEAN :
               IF ~named
               THEN /\ pc' = "panicked"
                    /\ UNCHANGED <<response, txn, user_message, sttCalls>>
               ELSE /\ sttCalls' = sttCalls + 1
                    /\ IF ok
                       THEN /\ user_message' = Transcription
                            /\ pc' = "begin"
                            /\ UNCHANGED <<response, txn>>
                       ELSE Reject(500) /\ UNCHANGED user_message
    /\ UNCHANGED <<req, store0, credits_remaining, conversation_list, store, txRow,
                   providerCalls, channel, sent, rxAlive, notified>>
    /\ UNCHANGED streamVars

\* chat.rs 148-155: state.db.begin().
BeginTransaction ==
    /\ pc = "begin"
    /\ UNCHANGED ctlVars
    /\ UNCHANGED authBalance
    /\ UNCHANGED voiceVars
    /\ UNCHANGED savedFiles
    /\ UNCHANGED sttCalls
    /\ UNCHANGED failure
    /\ \E ok \in BOOLEAN :
          IF ok
          THEN pc' = "find" /\ txn' = "open" /\ UNCHANGED response
          ELSE Reject(500)
    /\ UNCHANGED <<store, txRow, providerCalls, channel, sent, rxAlive, notified>>
    /\ UNCHANGED reqVars
    /\ UNCHANGED streamVars

\* chat.rs 157-255: the conversation lookup, the edit-target check and the
\* message history with the new user message last.
FindConversation ==
    /\ pc = "find"
    /\ UNCHANGED ctlVars
    /\ UNCHANGED authBalance
    /\ UNCHANGED voiceVars
    /\ UNCHANGED savedFiles
    /\ UNCHANGED sttCalls
    /\ UNCHANGED failure
    /\ \E ok \in BOOLEAN :
          IF ~ok THEN Reject(500) /\ UNCHANGED conversation_list
          ELSE LET conversation_model ==
                       find_by_user_id_and_conversation_id(store, owner, user_id)
               IN
               IF ~conversation_model.exists
               THEN Reject(404) /\ UNCHANGED conversation_list
               ELSE IF message_id_rejected(req.message_id, conversation_model.conversation)
               THEN Reject(400) /\ UNCHANGED conversation_list
               ELSE
                  /\ conversation_list' =
                         Append(conversation_model.conversation, UserEntry(user_message))
               /\ pc' = "request"
               /\ UNCHANGED <<response, txn>>
    /\ UNCHANGED <<req, store0, credits_remaining, user_message, store, txRow,
                   providerCalls, channel, sent, rxAlive, notified>>
    /\ UNCHANGED streamVars

\* chat.rs 256-332, 524-531: the completion request; on success the task is
\* spawned and the handler returns the streamed response.
SendProviderRequest ==
    /\ pc = "request"
    /\ UNCHANGED ctlVars
    /\ UNCHANGED authBalance
    /\ UNCHANGED voiceVars
    /\ UNCHANGED savedFiles
    /\ UNCHANGED sttCalls
    /\ UNCHANGED failure
    /\ providerCalls' = providerCalls + 1
    /\ \E ok \in BOOLEAN :
          IF ok
          THEN pc' = "stream" /\ response' = 200 /\ UNCHANGED txn
          ELSE Reject(500)
    /\ UNCHANGED <<store, txRow, channel, sent, rxAlive, notified>>
    /\ UNCHANGED reqVars
    /\ UNCHANGED streamVars

\* A relay that segments and synthesizes whatever the message type.
IsVoice_always(message_type) == TRUE

\* `match message_type { MessageType::Voice => .., MessageType::Text => .. }`
IsVoice(message_type) == message_type # "text"

\* What the provider streams for a turn, and the synthesis outcomes to draw.
ChunksOf(message_type) == IF message_type = "text" THEN ChunkSet ELSE VoiceChunkSet
OraclesOf(message_type) == IF message_type = "text" THEN {<<>>} ELSE Oracles

\* chat.rs 335-435: one Ok chunk of the provider stream that is valid UTF-8.
ReadChunk ==
    /\ pc = "stream"
    /\ UNCHANGED ctlVars
    /\ UNCHANGED authBalance
    /\ UNCHANGED savedFiles
    /\ UNCHANGED sttCalls
    /\ Len(wire) < MaxChunks
    /\ \E c \in ChunksOf(req.message_type), oracle \in OraclesOf(req.message_type) :
          LET st == ProcessLines(c, 1, rxAlive,
                        TaskLocals(IsVoice(req.message_type), total_content, channel, sent,
                                   buffer, is_started, total_voice, ttsLog, oracle))
          IN  /\ wire' = Append(wire, c)
              /\ doneSeen' = (doneSeen \/ st.done)
              /\ total_content' = st.total_content
              /\ channel' = st.channel
              /\ sent' = st.sent
              /\ buffer' = st.buffer
              /\ is_started' = st.is_started
              /\ total_voice' = st.total_voice
              /\ ttsLog' = st.log
              /\ IF st.halt = "abort"
                 THEN pc' = "failed" /\ failure' = "send" /\ txn' = Dropped(txn)
                 ELSE pc' = "stream" /\ UNCHANGED <<txn, failure>>
    /\ UNCHANGED <<response, store, txRow, providerCalls, rxAlive, notified>>
    /\ UNCHANGED reqVars

\* chat.rs 338-344: a chunk that is not valid UTF-8 leaves the read loop.
ReadInvalidUtf8 ==
    /\ pc = "stream"
    /\ UNCHANGED ctlVars
    /\ UNCHANGED authBalance
    /\ UNCHANGED voiceVars
    /\ UNCHANGED savedFiles
    /\ UNCHANGED sttCalls
    /\ UNCHANGED failure
    /\ Len(wire) < MaxChunks
    /\ wire' = Append(wire, InvalidChunk)
    /\ pc' = "persist"
    /\ UNCHANGED <<response, store, txn, txRow, providerCalls, channel, sent, rxAlive, notified>>
    /\ UNCHANGED <<doneSeen, total_content>>
    /\ UNCHANGED reqVars

\* chat.rs 436-441: the transport reports an error.
ReadTransportError ==
    /\ pc = "stream"
    /\ UNCHANGED ctlVars
    /\ UNCHANGED authBalance
    /\ UNCHANGED voiceVars
    /\ UNCHANGED savedFiles
    /\ UNCHANGED sttCalls
    /\ Fail("transport")
    /\ UNCHANGED <<response, store, txRow, providerCalls, rxAlive, notified>>
    /\ UNCHANGED reqVars
    /\ UNCHANGED streamVars

\* An end of stream that hands the rest of the buffer to the synthesizer.
StreamEnd_flushes ==
    /\ pc = "stream"
    /\ UNCHANGED ctlVars
    /\ UNCHANGED authBalance
    /\ buffer' = <<>>
    /\ ttsLog' = IF buffer = <<>> THEN ttsLog
                 ELSE Append(ttsLog, SpeakEvent(buffer, Container(is_started), "ok"))
    /\ is_started' = (is_started \/ buffer # <<>>)
    /\ UNCHANGED total_voice
    /\ UNCHANGED savedFiles
    /\ UNCHANGED sttCalls
    /\ UNCHANGED failure
    /\ pc' = "persist"
    /\ UNCHANGED <<response, store, txn, txRow, providerCalls, channel, sent, rxAlive, notified>>
    /\ UNCHANGED reqVars
    /\ UNCHANGED streamVars

\* chat.rs 335: openai_stream.next() yields None.
StreamEnd ==
    /\ pc = "stream"
    /\ UNCHANGED ctlVars
    /\ UNCHANGED authBalance
    /\ UNCHANGED voiceVars
    /\ UNCHANGED savedFiles
    /\ UNCHANGED sttCalls
    /\ UNCHANGED failure
    /\ pc' = "persist"
    /\ UNCHANGED <<response, store, txn, txRow, providerCalls, channel, sent, rxAlive, notified>>
    /\ UNCHANGED reqVars
    /\ UNCHANGED streamVars

\* chat.rs 444-462: the name of the file that keeps the audio of a voice turn.
saved_filename(list) == <<"voice/", Digit(Len(list) - 1)>>

\* chat.rs 444-496: for a voice turn save_file(..).unwrap(), which panics when
\* the write fails; then add_message inside the turn's transaction, the user
\* entry of a voice turn being the file name.
Persist ==
    /\ pc = "persist"
    /\ UNCHANGED ctlVars
    /\ UNCHANGED authBalance
    /\ UNCHANGED voiceVars
    /\ UNCHANGED sttCalls
    /\ \E ok, written \in BOOLEAN :
          LET voice == IsVoice(req.message_type)
              r == add_message(find_by_user_id_and_conversation_id(store, owner, user_id),
                               IF voice THEN saved_filename(conversation_list)
                               ELSE user_message,
                               total_content,
                               persist_index(req.message_id, conversation_list))
          IN  IF voice /\ ~written
              THEN /\ pc' = "panicked"
                   /\ failure' = "panic"
                   /\ txn' = Dropped(txn)
                   /\ UNCHANGED <<txRow, channel, sent, savedFiles>>
              ELSE /\ savedFiles' = IF voice
                                    THEN savedFiles \cup {saved_filename(conversation_list)}
                                    ELSE savedFiles
                   /\ IF r.kind = "panic"
                      THEN /\ pc' = "panicked"
                           /\ failure' = "panic"
                           /\ txn' = Dropped(txn)
                           /\ UNCHANGED <<txRow, channel, sent>>
                      ELSE IF r.kind = "err" \/ ~ok
                      THEN Fail("store") /\ UNCHANGED txRow
                      ELSE /\ txRow' = r.row
                           /\ pc' = "notify"
                           /\ UNCHANGED <<txn, channel, sent, failure>>
    /\ UNCHANGED <<response, store, providerCalls, rxAlive, notified>>
    /\ UNCHANGED reqVars
    /\ UNCHANGED streamVars

\* The JSON body handed to send_session_data (chat.rs 499-502).
session_payload(credits) == [credits_remaining |-> credits]

\* A task that goes from the store write to the commit without the notifier.
Notify_skipped ==
    /\ pc = "notify"
    /\ UNCHANGED ctlVars
    /\ UNCHANGED authBalance
    /\ UNCHANGED voiceVars
    /\ UNCHANGED savedFiles
    /\ UNCHANGED sttCalls
    /\ pc' = "commit"
    /\ UNCHANGED <<notified, txn, channel, sent, failure>>
    /\ UNCHANGED <<response, store, txRow, providerCalls, rxAlive>>
    /\ UNCHANGED reqVars
    /\ UNCHANGED streamVars

\* A notifier call that reports the balance the auth service holds now.
Notify_rereads ==
    /\ pc = "notify"
    /\ UNCHANGED ctlVars
    /\ notified' = Append(notified, session_payload(authBalance))
    /\ pc' = "commit"
    /\ UNCHANGED <<voiceVars, savedFiles, sttCalls, authBalance>>
    /\ UNCHANGED <<txn, channel, sent, failure>>
    /\ UNCHANGED <<response, store, txRow, providerCalls, rxAlive>>
    /\ UNCHANGED reqVars
    /\ UNCHANGED streamVars

\* chat.rs 498-514: the billing notifier call.
Notify ==
    /\ pc = "notify"
    /\ UNCHANGED ctlVars
    /\ UNCHANGED authBalance
    /\ UNCHANGED voiceVars
    /\ UNCHANGED savedFiles
    /\ UNCHANGED sttCalls
    /\ \E ok \in BOOLEAN :
          IF ok
          THEN /\ notified' = Append(notified, session_payload(credits_remaining))
               /\ pc' = "commit"
               /\ UNCHANGED <<txn, channel, sent, failure>>
          ELSE Fail("notifier") /\ UNCHANGED notified
    /\ UNCHANGED <<response, store, txRow, providerCalls, rxAlive>>
    /\ UNCHANGED reqVars
    /\ UNCHANGED streamVars

\* chat.rs 516-522: transaction.commit().
Commit ==
    /\ pc = "commit"
    /\ UNCHANGED ctlVars
    /\ UNCHANGED authBalance
    /\ UNCHANGED voiceVars
    /\ UNCHANGED savedFiles
    /\ UNCHANGED sttCalls
    /\ \E ok \in BOOLEAN :
          IF ok
          THEN /\ store' = txRow
               /\ txn' = "committed"
               /\ pc' = "done"
               /\ UNCHANGED <<channel, sent, failure>>
          ELSE Fail("commit") /\ UNCHANGED store
    /\ UNCHANGED <<response, txRow, providerCalls, rxAlive, notified>>
    /\ UNCHANGED reqVars
    /\ UNCHANGED streamVars

\* The client goes away: the ReceiverStream of the response body is dropped.
ClientDisconnect ==
    /\ pc \in {"stream", "persist", "notify", "commit"}
    /\ UNCHANGED ctlVars
    /\ UNCHANGED authBalance
    /\ UNCHANGED voiceVars
    /\ UNCHANGED savedFiles
    /\ UNCHANGED sttCalls
    /\ rxAlive
    /\ rxAlive' = FALSE
    /\ UNCHANGED failure
    /\ UNCHANGED <<pc, response, store, txn, txRow, providerCalls, channel, sent, notified>>
    /\ UNCHANGED reqVars
    /\ UNCHANGED streamVars

Next ==
    \/ CreditGate
    \/ DecodeUserMessage
    \/ BeginTransaction
    \/ FindConversation
    \/ SendProviderRequest
    \/ ReadChunk
    \/ ReadInvalidUtf8
    \/ ReadTransportError
    \/ StreamEnd
    \/ Persist
    \/ Notify
    \/ Commit
    \/ ClientDisconnect

Spec == Init /\ [][Next]_vars

\* ------------------------------------------------------- the handler
\* The synchronous part of handle_user_message (chat.rs 73-189), up to the
\* accepted edit target, for text and voice turns.
InitHandler == InitWith(Requests \cup VoiceRequests, StoredRows)

NextHandler ==
    \/ CreditGate
    \/ DecodeUserMessage
    \/ BeginTransaction
    \/ FindConversation

SpecHandler == InitHandler /\ [][NextHandler]_vars

\* ------------------------------------------------------- title inputs
Rep(c, n) == [i \in 1..n |-> c]

\* "hello there world and more"
FiveWords ==
    <<"h", "e", "l", "l", "o", " ", "t", "h", "e", "r", "e", " ", "w", "o", "r", "l", "d",
      " ", "a", "n", "d", " ", "m", "o", "r", "e">>
\* One word of exactly TitleCap characters, and one of a character more.
WordAtCap == Rep("a", TitleCap)
WordOverCap == Rep("a", TitleCap + 1)
\* Two words of non-ASCII characters: 23 characters, 67 bytes.
WideWords == Rep(WideChar, 11) \o <<" ">> \o Rep(WideChar, 11)
TitleMessages == {FiveWords, WordAtCap, WordOverCap, WideWords, ShortMessage}

\* A title longer than TitleCap, as edit_title stores it unchecked.
LongTitle == Rep("t", TitleCap + 2)
TitleRows ==
    {StoredRow(0), Row(<<>>, LongTitle), StoredRow(1), Row(StoredConversation(1), LongTitle)}

TitleRequests ==
    [session : {[present |-> TRUE, credits_remaining |-> PriceFull]},
     message_type : {"text"}, message_model : {"gpt-4o-mini"},
     message_id : {-1, 0}, message_data : TitleMessages, utf8 : {TRUE}]

InitTitle == InitWith(TitleRequests, TitleRows)

SpecTitle == InitTitle /\ [][Next]_vars

\* ----------------------------------------------------------- voice turns
\* Voice turns that pass the gate.
InitVoice ==
    /\ InitWith(VoiceRequests, {StoredRow(1)})
    /\ req.session = [present |-> TRUE, credits_remaining |-> PriceFull]
    /\ req.message_model = "gpt-4o-mini"
    /\ req.message_id \in {-1, 0}

SpecVoice == InitVoice /\ [][Next]_vars

\* Text and voice turns that pass the gate, on a conversation of one turn.
InitRelay ==
    \/ InitVoice
    \/ /\ InitWith(Requests, {StoredRow(1)})
       /\ req.session = [present |-> TRUE, credits_remaining |-> PriceFull]
       /\ req.message_type = "text"
       /\ req.message_model = "gpt-4o-mini"
       /\ req.message_id \in {-1, 0}
       /\ req.utf8

SpecRelay == InitRelay /\ [][Next]_vars

\* -------------------------------------------------- session balance
\* utils/jwt.rs 38-65: the session, with the balance, is fetched from the auth
\* service when the request is authenticated, and handed to the handler by
\* value. Meanwhile the balance the service holds can change: here another
\* turn of the user spends it all while this turn streams.
BalanceChange ==
    /\ pc = "stream"
    /\ UNCHANGED ctlVars
    /\ authBalance = req.session.credits_remaining
    /\ authBalance' = 0
    /\ UNCHANGED <<pc, response, store, txn, txRow, providerCalls, channel, sent, rxAlive,
                   notified, failure, sttCalls, savedFiles>>
    /\ UNCHANGED voiceVars
    /\ UNCHANGED reqVars
    /\ UNCHANGED streamVars

InitSession ==
    /\ InitWith(Requests, {StoredRow(1)})
    /\ req.session.present
    /\ req.message_type = "text"
    /\ req.message_id = -1
    /\ req.utf8

NextSession == Next \/ BalanceChange

SpecSession == InitSession /\ [][NextSession]_vars

\* -------------------------------------------------------------- progress
\* The steps of the spawned task (chat.rs 332-523). The runtime keeps polling
\* the task and every await of it completes, so a step that stays possible is
\* taken; the client's disconnect is not obliged to happen.
TaskStep ==
    \/ ReadChunk
    \/ ReadInvalidUtf8
    \/ ReadTransportError
    \/ StreamEnd
    \/ Persist
    \/ Notify
    \/ Commit

\* Text appends that pass the gate, on a conversation of one turn.
InitLive ==
    /\ InitRelay
    /\ req.message_type = "text"
    /\ req.message_id = -1

SpecLive == InitLive /\ [][Next]_vars /\ WF_vars(TaskStep)

\* ------------------------------------------------- controller operations
\* Most rows create_new_conversation inserts in a behaviour.
MaxCreated == 1

Users == {1, 2}
NewTitles == {<<"t">>, LongTitle}

\* The rows an operation's transaction sees and writes: the conversation the
\* request names, and the rows create_new_conversation inserted.
Db == [row |-> store, created |-> created]

\* What the closure handed to handle_transaction returns, with the rows as its
\* transaction has written them.
Ok(body, db) == [status |-> 200, body |-> body, db |-> db]
Err(status, db) == [status |-> status, body |-> <<>>, db |-> db]

\* A handle_transaction that commits whatever the operation returned.
handle_transaction_commits(op, uid, db, begun, out, committed) ==
    LET call == [op |-> op, uid |-> uid, result |-> 0, status |-> 500,
                 tx |-> "none", body |-> <<>>]
    IN  IF ~begun THEN [call |-> call, db |-> db]
        ELSE IF committed
        THEN [call |-> [call EXCEPT !.result = out.status, !.status = out.status,
                                    !.tx = "committed", !.body = out.body],
              db |-> out.db]
        ELSE [call |-> [call EXCEPT !.result = out.status, !.tx = "rolledback"],
              db |-> db]

\* controllers/chat.rs 25-55: begin; run the operation; commit when it
\* returned Ok, roll back and return its error when it returned Err. `begun` and
\* `committed` are the outcomes of begin() and commit(); the result holds the
\* call as the client sees it and the rows as committed.
handle_transaction(op, uid, db, begun, out, committed) ==
    LET call == [op |-> op, uid |-> uid, result |-> 0, status |-> 500,
                 tx |-> "none", body |-> <<>>]
    IN  IF ~begun THEN [call |-> call, db |-> db]
        ELSE IF out.status = 200
        THEN IF committed
             THEN [call |-> [call EXCEPT !.result = 200, !.status = 200,
                                         !.tx = "committed", !.body = out.body],
                   db |-> out.db]
             ELSE [call |-> [call EXCEPT !.result = 200, !.tx = "rolledback"],
                   db |-> db]
        ELSE [call |-> [call EXCEPT !.result = out.status, !.status = out.status,
                                    !.tx = "rolledback"],
              db |-> db]

\* conversation.rs 5-20 under controllers/chat.rs 72-89.
new_conversation(db, uid, inserted) ==
    IF inserted THEN Ok(<<>>, [db EXCEPT !.created = Append(@, uid)])
    ELSE Err(500, db)

\* conversation.rs 22-34 under controllers/chat.rs 101-123: the titles of the
\* caller's conversations.
find_by_user_id(db, row_user_id, uid, found) ==
    IF ~found THEN Err(500, db)
    ELSE LET m == find_by_user_id_and_conversation_id(db.row, row_user_id, uid)
             own == SelectSeq(db.created, LAMBDA u : u = uid)
         IN  Ok((IF m.exists THEN <<m.title>> ELSE <<>>)
                    \o [i \in 1..Len(own) |-> DefaultTitle],
                db)

\* controllers/chat.rs 136-177: the closure of delete_conversation.
delete_conversation(db, row_user_id, uid, found, deleted) ==
    IF ~found THEN Err(500, db)
    ELSE LET m == find_by_user_id_and_conversation_id(db.row, row_user_id, uid)
         IN  IF ~m.exists THEN Err(404, db)
             ELSE IF ~deleted THEN Err(500, db)
             ELSE Ok(<<>>, [db EXCEPT !.row = NoRow])

\* controllers/chat.rs 190-224: the closure of get_conversation; the stored
\* entries are Messages.
get_conversation(db, row_user_id, uid, found) ==
    IF ~found THEN Err(500, db)
    ELSE LET m == find_by_user_id_and_conversation_id(db.row, row_user_id, uid)
         IN  IF m.exists THEN Ok(m.conversation, db) ELSE Err(404, db)

\* conversation.rs 112-142 under controllers/chat.rs 382-399: every Err of the
\* repository, the absent conversation included, becomes format_error's 500.
edit_title(db, row_user_id, uid, title, found, updated) ==
    IF ~found THEN Err(500, db)
    ELSE LET m == find_by_user_id_and_conversation_id(db.row, row_user_id, uid)
         IN  IF ~m.exists \/ ~updated THEN Err(500, db)
             ELSE Ok(<<>>, [db EXCEPT !.row = Row(m.conversation, title)])

\* The variables of the turn that no controller operation touches.
turnVars == <<req, pc, response, credits_remaining, user_message, conversation_list,
              store0, txn, txRow, providerCalls, wire, doneSeen, total_content,
              channel, sent, rxAlive, notified, failure, sttCalls,
              buffer, is_started, total_voice, ttsLog, savedFiles, authBalance>>

\* One request to a controller operation, from begin to commit or rollback.
Handled(r) ==
    /\ ctl' = r.call
    /\ store' = r.db.row
    /\ created' = r.db.created
    /\ UNCHANGED <<user_id, owner>>
    /\ UNCHANGED turnVars

CreateNewConversation ==
    /\ Len(created) < MaxCreated
    /\ \E uid \in Users, begun, inserted, committed \in BOOLEAN :
          Handled(handle_transaction("create", uid, Db, begun,
                                     new_conversation(Db, uid, inserted), committed))

RetrieveAllConversations ==
    \E uid \in Users, begun, found, committed \in BOOLEAN :
        Handled(handle_transaction("list", uid, Db, begun,
                                   find_by_user_id(Db, owner, uid, found), committed))

DeleteConversation ==
    \E uid \in Users, begun, found, deleted, committed \in BOOLEAN :
        Handled(handle_transaction("delete", uid, Db, begun,
                                   delete_conversation(Db, owner, uid, found, deleted),
                                   committed))

GetConversation ==
    \E uid \in Users, begun, found, committed \in BOOLEAN :
        Handled(handle_transaction("get", uid, Db, begun,
                                   get_conversation(Db, owner, uid, found), committed))

EditTitle ==
    \E uid \in Users, title \in NewTitles, begun, found, updated, committed \in BOOLEAN :
        Handled(handle_transaction("edit_title", uid, Db, begun,
                                   edit_title(Db, owner, uid, title, found, updated),
                                   committed))

StoreOperation ==
    \/ CreateNewConversation
    \/ RetrieveAllConversations
    \/ DeleteConversation
    \/ GetConversation
    \/ EditTitle

\* Approved text turns and controller requests of two users on a conversation
\* that one of them owns, or that does not exist.
InitStore ==
    /\ InitTurn(Requests, {NoRow, StoredRow(1)})
    /\ req.session = [present |-> TRUE, credits_remaining |-> PriceFull]
    /\ req.message_type = "text"
    /\ req.message_model = "gpt-4o-mini"
    /\ req.message_id \in {-1, 0}
    /\ req.utf8
    /\ user_id \in Users
    /\ owner \in Users
    /\ created = <<>>
    /\ ctl = NoCall

NextStore == NextHandler \/ StoreOperation

SpecStore == InitStore /\ [][NextStore]_vars

\* ------------------------------------------------- concurrent turns
\* The message and the answer of another turn on the same conversation.
OtherMessage == <<"o">>
OtherAnswer == <<"k">>

\* Another invocation of handle_user_message on the same conversation runs
\* its check (chat.rs 180), add_message (466-496) and commit (516-522) between
\* two steps of this turn; k = -1 appends, k >= 0 edits turn k. This turn
\* does not read the store between its lookup and its add_message, so a
\* commit that lands during the request or the streaming is taken at the
\* start of the persistence step. One such turn commits while this one runs.
OtherCommit ==
    /\ pc \in {"persist", "notify", "commit", "done"}
    /\ UNCHANGED ctlVars
    /\ UNCHANGED authBalance
    /\ UNCHANGED voiceVars
    /\ UNCHANGED savedFiles
    /\ UNCHANGED sttCalls
    /\ store = store0
    /\ store.exists
    /\ \E k \in (-1)..(MaxTurns - 1) :
          /\ ~message_id_rejected(k, store.conversation)
          /\ LET seen == Append(store.conversation, UserEntry(OtherMessage))
                 r == add_message(store, OtherMessage, OtherAnswer, persist_index(k, seen))
             IN  /\ r.kind = "ok"
                 /\ Len(r.row.conversation) <= 2 * MaxTurns
                 /\ store' = r.row
    /\ UNCHANGED <<pc, response, txn, txRow, providerCalls, channel, sent, rxAlive,
                   notified, failure>>
    /\ UNCHANGED reqVars
    /\ UNCHANGED streamVars

\* controllers::chat::delete_conversation (127-179) commits the deletion of
\* the conversation in its own transaction while this turn streams.
OtherDelete ==
    /\ pc = "stream"
    /\ UNCHANGED ctlVars
    /\ store.exists
    /\ store' = NoRow
    /\ UNCHANGED <<pc, response, txn, txRow, providerCalls, channel, sent, rxAlive,
                   notified, failure, sttCalls, savedFiles, authBalance>>
    /\ UNCHANGED voiceVars
    /\ UNCHANGED reqVars
    /\ UNCHANGED streamVars

NextDelete == Next \/ OtherDelete

\* Text and voice turns, with the conversation deleted under them.
SpecDelete == InitRelay /\ [][NextDelete]_vars

\* Turns that pass the gate and the decoding: the interleavings of interest
\* start at the conversation lookup.
InitConc ==
    /\ Init
    /\ req.session = [present |-> TRUE, credits_remaining |-> PriceFull]
    /\ req.message_type = "text"
    /\ req.message_model = "gpt-4o-mini"
    /\ req.utf8

NextConc == Next \/ OtherCommit

SpecConc == InitConc /\ [][NextConc]_vars

\* ------------------------------------------------------------------ claims
DataBytes(chan) == [i \in DOMAIN chan |-> chan[i].bytes]
NoEffects ==
    /\ txn = "none"
    /\ txRow = NoRow
    /\ providerCalls = 0
    /\ store = store0
    /\ notified = <<>>
    /\ channel = <<>>
GateReached == req.session.present /\ req.message_type \in {"text", "voice"}

\* The entries the turn keeps: all of them on append, the first 2n on an edit of turn n.
KeptEntries ==
    IF req.message_id = -1 THEN store0.conversation
    ELSE SubSeq(store0.conversation, 1, 2 * req.message_id)

\* C1: when a text turn's task returns Ok, the channel holds only data frames,
\* one per decoded delta, their concatenation is the accumulated text and the
\* stored assistant entry; exactly one user/assistant pair was appended to the
\* kept entries; and the notifier was called exactly once.
C1_EndToEndSuccess ==
    (pc = "done" /\ req.message_type = "text") =>
        /\ \A i \in DOMAIN channel : channel[i].kind = "data"
        /\ Flatten(DataBytes(channel)) = total_content
        /\ store.conversation =
               KeptEntries \o <<UserEntry(user_message), AssistantEntry(total_content)>>
        /\ Len(store.conversation) = Len(KeptEntries) + 2
        /\ Len(notified) = 1
C1_Witness ==
    /\ pc = "done"
    /\ req.message_type = "text"
    /\ Len(channel) = 2
    /\ Len(total_content) = 3

\* C2: every balance the notifier receives is the balance of the session at
\* turn start minus the price of the selected model.
C2_NotifiedBalanceIsDecremented ==
    \A i \in DOMAIN notified :
        notified[i].credits_remaining =
            req.session.credits_remaining - MODEL_TO_PRICE[req.message_model]

\* C3: for a model of the price table, once the gate has run the turn is
\* rejected with 403 iff price > balance (approved iff price <= balance), and
\* a rejected turn has had no effect: no transaction, provider call, store
\* write or notifier call.
C3_CreditGate ==
    (GateReached /\ req.message_model \in Models /\ pc # "gate") =>
        LET price == MODEL_TO_PRICE[req.message_model]
            balance == req.session.credits_remaining
        IN  /\ (response = 403) <=> (price > balance)
            /\ price > balance => pc = "rejected" /\ NoEffects
            /\ price <= balance => credits_remaining = balance
C3_Witness ==
    /\ pc = "rejected"
    /\ response = 403
    /\ req.session.credits_remaining = PriceMini
    /\ req.message_model = "gpt-4o"

\* C4: a model that is not in the price table never passes the gate at any
\* balance; once the gate has run the request is rejected, with 400 when the
\* session and message type were valid, and nothing happened.
C4_UnknownModelRejected ==
    (req.message_model \notin Models /\ pc # "gate") =>
        /\ pc = "rejected"
        /\ NoEffects
        /\ GateReached => response = 400
C4_Witness ==
    /\ pc = "rejected"
    /\ response = 400
    /\ GateReached
    /\ req.message_model \notin Models
    /\ req.session.credits_remaining = PriceFull

\* C5: a committed edit of turn n (0 <= n < m) of a conversation of 2m entries
\* stores the first 2n entries unchanged followed by the new pair, 2n+2 entries
\* in all; an edit with n >= m never gets past validation and leaves the
\* stored conversation unchanged.
C5_EditTruncation ==
    LET n == req.message_id
        m == Len(store0.conversation) \div 2
    IN  /\ (pc = "done" /\ n >= 0) =>
            /\ n < m
            /\ Len(store.conversation) = 2 * n + 2
            /\ SubSeq(store.conversation, 1, 2 * n) = SubSeq(store0.conversation, 1, 2 * n)
            /\ store.conversation[2 * n + 1] = UserEntry(user_message)
            /\ store.conversation[2 * n + 2] = AssistantEntry(total_content)
        /\ n >= m =>
            /\ store = store0
            /\ txRow = NoRow
            /\ pc \in {"gate", "decode", "begin", "find", "rejected"}
            /\ (pc = "rejected" /\ response = 400) \/ providerCalls = 0
C5_Witness ==
    /\ pc = "done"
    /\ req.message_id = 1
    /\ Len(store0.conversation) = 4
    /\ Len(store.conversation) = 4
    /\ store # store0

\* C6: a request whose edit target is neither -1 nor in 0 <= n < floor(len/2)
\* never reaches the provider call, the stream or the persistence step.
C6_OutOfRangeRejectedEarly ==
    LET n == req.message_id
        m == Len(store0.conversation) \div 2
    IN  (n # -1 /\ ~(0 <= n /\ n < m)) =>
            /\ providerCalls = 0
            /\ pc \in {"gate", "decode", "begin", "find", "rejected"}

\* What the text branch accumulates over a whole wire while the receiver lives.
RECURSIVE Accumulated(_)
Accumulated(w) ==
    IF w = <<>> THEN <<>>
    ELSE ProcessChunk(w[Len(w)], TRUE, Accumulated(SubSeq(w, 1, Len(w) - 1)), <<>>).total_content

SplitFirst == << <<"P", "Ha">> >>
SplitRest == << <<"T">>, EmptyLine >>

\* C7: when a frame's body is split over two chunks (the first ends inside the
\* JSON body, the second carries its closing text and the newline), its content
\* is relayed as one delta and accumulated.
C7_SplitFrameReassembled ==
    (rxAlive /\ wire = <<SplitFirst, SplitRest>>) =>
        /\ channel = <<DataMsg(ContentOf("Ha"))>>
        /\ total_content = ContentOf("Ha")

\* The wire up to and including its first "[DONE]" frame.
HasDone(c) == \E j \in DOMAIN c : c[j] = DoneLine
FirstDone(c) == CHOOSE j \in DOMAIN c : c[j] = DoneLine /\ \A i \in 1..(j - 1) : c[i] # DoneLine
RECURSIVE UpToDone(_)
UpToDone(w) ==
    IF w = <<>> THEN <<>>
    ELSE IF HasDone(Head(w)) THEN <<SubSeq(Head(w), 1, FirstDone(Head(w)))>>
    ELSE <<Head(w)>> \o UpToDone(Tail(w))

\* C8: what has been accumulated and relayed is what the frames up to the first
\* "[DONE]" frame yield: nothing that follows the sentinel, in the same chunk or
\* in a later one, adds a delta.
C8_NothingAfterDone ==
    rxAlive =>
        /\ total_content = Accumulated(UpToDone(wire))
        /\ Flatten(DataBytes(channel)) = Accumulated(UpToDone(wire))

\* The wire with its malformed frames removed.
WithoutJunk(w) == [k \in DOMAIN w |-> SelectSeq(w[k], LAMBDA line : line # JunkLine)]

\* C9: a malformed frame is a gap: the deltas accumulated and relayed are those
\* of the same wire without its malformed frames, so every well-formed frame
\* after one, in the same chunk or a later one, still yields its delta.
C9_MalformedFrameIsGap ==
    rxAlive =>
        /\ total_content = Accumulated(WithoutJunk(wire))
        /\ Flatten(DataBytes(channel)) = Accumulated(WithoutJunk(wire))

\* C10: a provider stream of valid chunks that ended without any delta ends the
\* turn with an error: the persistence step appends nothing, the notifier is not called and
\* the stored conversation stays as it was.
C10_NoDeltaIsFatal ==
    (pc \in {"persist", "notify", "commit", "done", "failed", "panicked"}
        /\ total_content = <<>>
        /\ \A k \in DOMAIN wire : wire[k] # InvalidChunk) =>
        /\ pc \notin {"notify", "commit", "done"}
        /\ txRow = NoRow
        /\ notified = <<>>
        /\ store = store0
        /\ (pc = "failed" /\ rxAlive) => channel = <<ErrorMsg>>

\* C11: a transport error of the provider stream ends the turn at once: the
\* step that meets it reads no chunk, sends the error as the last message to a
\* listening client, rolls the transaction back, and leaves the task ended with
\* nothing written, no notifier call and the store as before the turn; no step
\* follows it.
C11_TransportErrorEndsTurn ==
    [][(failure' = "transport") =>
          /\ pc' = "failed"
          /\ wire' = wire
          /\ txRow' = NoRow
          /\ notified' = <<>>
          /\ store' = store0'
          /\ txn' = "rolledback"
          /\ failure = "none"
          /\ channel' = IF rxAlive THEN Append(channel, ErrorMsg) ELSE channel]_vars

C11_Witness ==
    /\ failure = "transport"
    /\ rxAlive
    /\ Len(channel) > 1
    /\ channel[Len(channel)] = ErrorMsg

\* C12: the store transaction is open only once the provider stream has been
\* consumed, never before the provider request or while chunks are read.
C12_TransactionOpenedAfterStream ==
    txn = "open" => pc \in {"persist", "notify", "commit"}

\* C14: when the notifier fails after the stream was relayed and the pair was
\* written, the transaction is rolled back and never committed, the store is
\* as before the turn, and a listening client gets the error as the last
\* message, after the data messages, which carry every decoded delta.
C14_NotifierFailureRollsBack ==
    [][(failure' = "notifier") =>
          /\ pc = "notify" /\ pc' = "failed"
          /\ txn = "open" /\ txn' = "rolledback"
          /\ store' = store0'
          /\ notified' = <<>>
          /\ channel' = IF rxAlive THEN Append(channel, ErrorMsg) ELSE channel
          /\ \A i \in DOMAIN channel : channel[i] # ErrorMsg
          /\ rxAlive => Flatten(DataBytes(channel)) = total_content]_vars

C14_Witness ==
    /\ failure = "notifier"
    /\ rxAlive
    /\ Len(channel) > 1
    /\ channel[Len(channel)] = ErrorMsg
    /\ txRow # NoRow
    /\ store = store0

\* C15 as stated: the notifier is called only for a turn whose transaction has
\* already been committed.
C15_CommitBeforeNotifier ==
    notified # <<>> => txn = "committed"

\* C15 amended: the notifier is called before the commit, with the pair
\* written in the still open transaction; the commit is attempted only after
\* the notifier accepted the payload, so a committed turn has exactly one
\* accepted notifier call and the store changes only at that commit.
C15_NotifierBeforeCommit ==
    /\ (txn = "committed" \/ pc = "commit") => Len(notified) = 1
    /\ notified # <<>> => (txRow # NoRow /\ pc \in {"commit", "done", "failed"})
    /\ (pc = "commit") => (txn = "open" /\ store = store0)
    /\ store # store0 => txn = "committed"

C15_Witness ==
    /\ pc = "commit"
    /\ Len(notified) = 1
    /\ txn = "open"
    /\ txRow # NoRow
    /\ store = store0

\* C16: a send that fails because the client went away stops the relaying but
\* not the turn: the task goes on to the persistence step.
C16_DisconnectStillPersists ==
    failure = "send" => pc \in {"persist", "notify", "commit", "done"}

\* C17: the streaming task never panics, and every task that ends in failure
\* has rolled its transaction back and sent exactly one error message, the last
\* message a listening client receives.
C17_EveryFailureIsReported ==
    /\ pc # "panicked"
    /\ pc = "failed" => txn = "rolledback"
    /\ (pc = "failed" /\ rxAlive) =>
          /\ channel # <<>>
          /\ \A i \in DOMAIN channel : (channel[i] = ErrorMsg) <=> (i = Len(channel))

\* C13: the edit target is validated again against the conversation the
\* persistence step finds: when a concurrently committed turn has left the
\* target out of range, the step fails, writes nothing and the turn is rolled back.
C13_RevalidatedAtPersist ==
    [][(/\ pc = "persist" /\ pc' # "persist"
        /\ store.exists
        /\ req.message_id >= 0
        /\ message_id_rejected(req.message_id, store.conversation)) =>
          /\ pc' = "failed"
          /\ failure' = "store"
          /\ txRow' = NoRow
          /\ txn' = "rolledback"]_vars

\* Entries alternate user, assistant from the first one and come in pairs.
Shape(conv) ==
    /\ Len(conv) % 2 = 0
    /\ \A i \in DOMAIN conv : conv[i].role = IF i % 2 = 1 THEN "user" ELSE "assistant"

\* C19: whatever turns were committed, one after the other or interleaved,
\* the stored conversation, and the one a turn has written in its open
\* transaction, has an even number of entries alternating user, assistant.
C19_ShapeInvariant ==
    /\ Shape(store.conversation)
    /\ Shape(txRow.conversation)

C19_Witness ==
    /\ pc = "done"
    /\ store0 # store
    /\ Len(store.conversation) >= 4
    /\ \E i \in DOMAIN store.conversation : store.conversation[i] = UserEntry(OtherMessage)
    /\ \E i \in DOMAIN store.conversation : store.conversation[i] = UserEntry(user_message)

\* C18: a turn rejected for a missing session, a malformed message type, an
\* unknown model, insufficient credit, an absent conversation or an edit index
\* out of range was rejected before any request to an external provider, the
\* transcription of a voice turn included, and has written nothing.
C18_RejectedBeforeProviders ==
    (pc = "rejected" /\ response \in {400, 401, 403, 404}) =>
        /\ sttCalls = 0
        /\ providerCalls = 0
        /\ store = store0
        /\ txRow = NoRow
        /\ txn # "committed"
        /\ notified = <<>>
        /\ channel = <<>>

\* The turn writes the conversation's first turn.
FirstTurn == persist_index(req.message_id, conversation_list) = 0

\* C20: on the first turn the title becomes the join of the first three words
\* of the user message when that join has at most 30 characters, and the first
\* 30 characters of the previous title otherwise; it has at most 30 characters.
C20_TitleDerivation ==
    (txRow # NoRow /\ FirstTurn) =>
        LET joined == JoinSp(Take(split_whitespace(user_message), TitleWords))
        IN  /\ txRow.title = IF Len(joined) <= TitleCap THEN joined
                              ELSE Take(store0.title, TitleCap)
            /\ Len(txRow.title) <= TitleCap

\* The sentences drained from the buffer so far, in the order of the log.
Sentences(log) ==
    LET speaks == SelectSeq(log, LAMBDA e : e.kind = "speak")
    IN  [i \in DOMAIN speaks |-> speaks[i].sentence]

\* A boundary starts at position p of s: one of . ! ? followed by whitespace,
\* or a line break.
BoundaryStart(s, p) ==
    \/ s[p] \in {".", "!", "?"} /\ p < Len(s) /\ IsWhitespace(s[p + 1])
    \/ s[p] = "\n"
    \/ s[p] = "\r" /\ p < Len(s) /\ s[p + 1] = "\n"

\* s ends with its first boundary: no boundary starts before it, and nothing
\* but the boundary's whitespace follows its first character.
EndsAtFirstBoundary(s) ==
    \E p \in DOMAIN s :
        /\ BoundaryStart(s, p)
        /\ \A q \in 1..(p - 1) : ~BoundaryStart(s, q)
        /\ \A q \in (p + 1)..Len(s) : IsWhitespace(s[q])
        /\ (s[p] = "\n") => (p = Len(s))

\* C21: the sentences the segmenter emits are, in text order, the pieces of
\* the accumulated text: each ends with the first boundary it contains, their
\* concatenation followed by the buffer is the text received so far (so none
\* is emitted before its boundary arrived), and while the relay runs no
\* complete boundary is left in the buffer.
C21_SegmenterEmitsInOrder ==
    LET ss == Sentences(ttsLog)
    IN  /\ \A i \in DOMAIN ss : EndsAtFirstBoundary(ss[i])
        /\ Flatten(ss) \o buffer = total_content
        /\ (pc # "failed") => \A p \in DOMAIN buffer : ~BoundaryStart(buffer, p)

\* "Hello wor", "ld. How are", " you?\n" gave "Hello world. ", "How are you?\n".
C21_Witness ==
    /\ wire = << <<Frame("Va"), EmptyLine, Frame("Vb"), EmptyLine>>,
                 <<Frame("Vc"), EmptyLine>> >>
    /\ Sentences(ttsLog) =
           << <<"H", "e", "l", "l", "o", " ", "w", "o", "r", "l", "d", ".", " ">>,
              <<"H", "o", "w", " ", "a", "r", "e", " ", "y", "o", "u", "?", "\n">> >>
    /\ buffer = <<>>

\* C22: once the provider stream is over nothing more goes to the
\* synthesizer: the text left in the segmenter's buffer stays there, while the
\* assistant entry the turn writes is the whole accumulated text, tail included.
C22_TailNotSpokenButPersisted ==
    [][/\ (pc # "stream" \/ pc' = "persist") =>
              (ttsLog' = ttsLog /\ buffer' = buffer /\ total_voice' = total_voice)
       /\ (txRow' # NoRow) =>
              /\ txRow'.conversation[Len(txRow'.conversation)] =
                     AssistantEntry(total_content')
              /\ total_content' = Flatten(Sentences(ttsLog')) \o buffer']_vars

C22_Witness ==
    /\ pc = "done"
    /\ buffer = <<"N", "o", ".">>
    /\ ttsLog # <<>>
    /\ \A i \in DOMAIN ttsLog : ttsLog[i].sentence # buffer
    /\ store.conversation[Len(store.conversation)].content = Flatten(Sentences(ttsLog)) \o buffer

\* The data messages of a channel, in order.
DataFrames(chan) == SelectSeq(chan, LAMBDA m : m.kind = "data")

\* C23: a text turn never touches the segmenter or the synthesizer, and the
\* data messages a listening client has are the decoded content deltas, one
\* message per delta, unchanged and in order.
C23_TextBypassesVoiceRelay ==
    (req.message_type = "text") =>
        /\ buffer = <<>> /\ ttsLog = <<>> /\ total_voice = <<>> /\ ~is_started
        /\ \A i \in DOMAIN DataFrames(channel) :
              DataFrames(channel)[i].bytes \in {ContentOf("Ha"), ContentOf("Hb")}
        /\ rxAlive => Flatten(DataBytes(DataFrames(channel))) = total_content

C23_Witness ==
    /\ req.message_type = "text"
    /\ pc = "persist"
    /\ rxAlive
    /\ channel = <<DataMsg(ContentOf("Ha")), DataMsg(ContentOf("Hb")), DataMsg(ContentOf("Ha"))>>
    /\ total_content = <<"H", "i", "!", "H", "i">>

\* The position in the log of the request for sentence c, 0 when the log has none.
SpeakPos(log, c) ==
    IF \E j \in DOMAIN log : log[j].kind = "speak" /\ SpeakCount(SubSeq(log, 1, j)) = c
    THEN CHOOSE j \in DOMAIN log : log[j].kind = "speak" /\ SpeakCount(SubSeq(log, 1, j)) = c
    ELSE 0

\* C24: the frames of sentence i are forwarded, in the order the synthesizer
\* yielded them, after the request for sentence i and before the request for
\* sentence i+1; frames of different sentences never interleave, and a
\* listening client has them in that order.
C24_SpeechRelayOrdering ==
    /\ \A j \in DOMAIN ttsLog :
          (ttsLog[j].kind = "frame") =>
              /\ ttsLog[j].call = SpeakCount(SubSeq(ttsLog, 1, j))
              /\ ttsLog[j].part =
                     IF ttsLog[j - 1].kind = "frame" THEN ttsLog[j - 1].part + 1 ELSE 1
    /\ \A j \in DOMAIN ttsLog :
          (ttsLog[j].kind = "frame") =>
              /\ SpeakPos(ttsLog, ttsLog[j].call) < j
              /\ SpeakPos(ttsLog, ttsLog[j].call + 1) \in {0} \cup ((j + 1)..Len(ttsLog))
    /\ (req.message_type = "voice" /\ rxAlive) =>
          Flatten(DataBytes(DataFrames(channel))) = total_voice

C24_Witness ==
    /\ rxAlive
    /\ SpeakCount(ttsLog) >= 2
    /\ \E i, j \in DOMAIN DataFrames(channel) :
          /\ i < j
          /\ DataFrames(channel)[i].bytes[1].call = 1
          /\ DataFrames(channel)[j].bytes[1].call = 2
    /\ Len(total_voice) = 4

\* The synthesis requests issued so far, in order.
SpeakCalls(log) == SelectSeq(log, LAMBDA e : e.kind = "speak" /\ e.outcome # "noclient")

\* C25: the first synthesis request of a turn asks for the self-contained
\* container (WAV) and every later one for the headerless container; the flag
\* is set from the first request on and never reset.
C25_FirstCallWavThenHeaderless ==
    [][/\ \A i \in DOMAIN SpeakCalls(ttsLog') :
             SpeakCalls(ttsLog')[i].container = IF i = 1 THEN "wav" ELSE "none"
       /\ is_started' = (SpeakCalls(ttsLog') # <<>>)
       /\ is_started => is_started']_vars

C25_Witness ==
    /\ Len(SpeakCalls(ttsLog)) >= 3
    /\ SpeakCalls(ttsLog)[1].outcome = "error"
    /\ SpeakCalls(ttsLog)[1].container = "wav"
    /\ SpeakCalls(ttsLog)[2].outcome = "ok"
    /\ SpeakCalls(ttsLog)[2].container = "none"
    /\ ttsLog[1].outcome = "noclient"

\* C26: a failed synthesis of one sentence is swallowed: the relay gives up
\* only when the client is gone, an error message is on the channel only for
\* a transport, store, notifier or commit failure, and the sentences after
\* the failed one are still taken from the buffer and synthesized.
C26_SynthesisFailureSwallowed ==
    /\ (failure = "send") => ~rxAlive
    /\ (\E i \in DOMAIN channel : channel[i] = ErrorMsg) =>
          failure \in {"transport", "store", "notifier", "commit"}
    /\ (pc # "failed") => sentence_regex_find(buffer) = 0
    /\ \A j \in DOMAIN ttsLog :
          (ttsLog[j].kind = "speak" /\ ttsLog[j].outcome # "ok" /\ j < Len(ttsLog)) =>
              ttsLog[j + 1].kind = "speak"

\* A turn whose first sentence failed and whose second was spoken, committed.
C26_Witness ==
    /\ pc = "done"
    /\ rxAlive
    /\ notified # <<>>
    /\ store # store0
    /\ Len(ttsLog) >= 3
    /\ ttsLog[1].outcome = "error"
    /\ ttsLog[2].outcome = "ok"
    /\ ttsLog[3].kind = "frame"
    /\ \A i \in DOMAIN channel : channel[i].kind = "data"

\* Frame a was yielded before frame b: an earlier sentence, or the same
\* sentence and an earlier part.
FrameBefore(a, b) == a.call < b.call \/ (a.call = b.call /\ a.part < b.part)

\* C27: the channel holds the messages tx.send accepted, each once and in the
\* order of the calls; for a text turn the data messages are the deltas in
\* delta order, for a voice turn the frames in sentence order, then frame order.
C27_ChannelKeepsOrder ==
    /\ channel = sent
    /\ (req.message_type = "text" /\ rxAlive) =>
          Flatten(DataBytes(DataFrames(channel))) = total_content
    /\ (req.message_type = "voice") =>
          \A i, j \in DOMAIN DataFrames(channel) :
              (i < j) => FrameBefore(DataFrames(channel)[i].bytes[1],
                                     DataFrames(channel)[j].bytes[1])

C27_Witness ==
    /\ req.message_type = "voice"
    /\ pc = "failed"
    /\ rxAlive
    /\ Len(channel) = 5
    /\ channel[5] = ErrorMsg
    /\ channel[1].bytes[1] = AudioFrame(1, 1)
    /\ channel[4].bytes[1] = AudioFrame(2, 2)

\* C28: the balance is read once: the value the gate checked is the value of
\* the session the request came with, the notifier payload is computed from
\* that same value, and a change of the balance at the auth service while the
\* turn streams changes neither.
C28_BalanceSnapshot ==
    /\ (pc \notin {"gate", "rejected"}) =>
          credits_remaining = req.session.credits_remaining
    /\ (pc \notin {"gate", "rejected"}) =>
          MODEL_TO_PRICE[req.message_model] <= req.session.credits_remaining
    /\ \A i \in DOMAIN notified :
          notified[i] = session_payload(credits_remaining)

C28_Witness ==
    /\ notified # <<>>
    /\ req.session.credits_remaining = PriceFull
    /\ authBalance = 0
    /\ pc = "done"

\* C29: when the conversation was deleted while the turn streamed, the
\* persistence step finds it absent and fails: no file and no row is written,
\* the notifier is not called, and a listening client gets the error message.
C29_DeletedConversationFailsTurn ==
    [][(pc = "persist" /\ pc' # "persist" /\ ~store.exists) =>
          /\ pc' = "failed"
          /\ failure' = "store"
          /\ txRow' = NoRow
          /\ store' = NoRow
          /\ savedFiles' = {}
          /\ notified' = <<>>
          /\ channel' = IF rxAlive THEN Append(channel, ErrorMsg) ELSE channel]_vars

\* The spawned task is over: its sender, and with it the client channel, is
\* dropped.
TaskEnded == response = 200 /\ pc \in {"done", "failed", "panicked"}

\* C30: every turn whose task was spawned ends, with its transaction either
\* committed or rolled back and no longer open, and the channel closed; a
\* transaction that was committed or rolled back stays so, never becomes the other.
C30_TurnReachesCommitOrRollback ==
    /\ (pc = "stream") ~> (TaskEnded /\ txn \in {"committed", "rolledback"})
    /\ [][(txn \in {"committed", "rolledback"}) => (txn' = txn)]_vars
    /\ [](TaskEnded => txn \in {"committed", "rolledback"})

C30_Witness ==
    /\ TaskEnded
    /\ failure = "send"
    /\ ~rxAlive
    /\ txn = "rolledback"
    /\ Len(wire) = MaxChunks

\* A step of a controller operation called by user u.
ControllerStepBy(u) ==
    /\ UNCHANGED turnVars
    /\ ctl'.uid = u
    /\ ctl'.op \in {"get", "delete", "edit_title"}

\* C31: get, delete and edit-title called by a user who does not own the
\* conversation fail with 404 (500 for edit-title and store errors), return no
\* content, commit nothing and leave the row as it is; that user's append or
\* edit turn is rejected at the lookup with 404 (500 on a store error) and
\* writes nothing.
C31_OwnerIsolation ==
    [][/\ \A u \in Users \ {owner} :
             ControllerStepBy(u) =>
                /\ ctl'.status \in {404, 500}
                /\ (ctl'.op = "edit_title") => (ctl'.status = 500)
                /\ ctl'.tx # "committed"
                /\ ctl'.body = <<>>
                /\ store' = store
       /\ (user_id # owner /\ pc = "find" /\ pc' # "find") =>
             /\ pc' = "rejected"
             /\ response' \in {404, 500}
             /\ txn' = "rolledback"
             /\ store' = store
             /\ txRow' = NoRow
             /\ providerCalls' = 0]_vars

C31_Witness ==
    /\ store.exists
    /\ user_id # owner
    /\ pc = "rejected"
    /\ response = 404
    /\ ctl.uid # owner
    /\ ctl.op = "delete"
    /\ ctl.status = 404
    /\ store = store0

\* a is an initial segment of b.
IsInitialSegment(a, b) == Len(a) <= Len(b) /\ SubSeq(b, 1, Len(a)) = a

\* C32: when an append turn commits, the entries committed just before its
\* commit are an initial segment of the stored conversation, whatever another
\* turn on the conversation committed in the meantime.
C32_AppendKeepsCommitted ==
    [][(req.message_id = -1 /\ pc = "commit" /\ pc' = "done") =>
          IsInitialSegment(store.conversation, store'.conversation)]_vars

\* The handler or the task of the turn has ended.
TurnEnded == pc \in {"done", "failed", "panicked", "rejected"}

\* C33: in every final state of a turn the notifier has accepted a balance
\* update for the turn exactly when the turn's pair is committed in the store.
C33_BillingStoreAtomicity ==
    TurnEnded => ((notified # <<>>) <=> (txn = "committed" /\ store = txRow))

\* The task is over and the client, still connected, was sent no error
\* message: the stream it sees ends normally.
EndedWithoutError ==
    /\ TaskEnded
    /\ rxAlive
    /\ \A i \in DOMAIN channel : channel[i] # ErrorMsg

\* C34: the stream a connected client sees ends without a terminal error
\* message only if the turn's transaction has committed and the notifier call
\* has succeeded.
C34_NormalEndMeansPersisted ==
    EndedWithoutError => (txn = "committed" /\ store = txRow /\ notified # <<>>)

\* C35: on an edit of turn n the history sent to the completion provider is
\* the first 2n stored entries followed by the new user message.
C35_EditContextIsTruncated ==
    [][(req.message_id >= 0 /\ pc = "request" /\ pc' = "stream") =>
          conversation_list =
              Append(SubSeq(store.conversation, 1, 2 * req.message_id),
                     UserEntry(user_message))]_vars

\* The last chunk read was not valid UTF-8: no chunk after it was processed.
StoppedAtInvalidChunk == wire # <<>> /\ wire[Len(wire)] = InvalidChunk

\* C36: a turn that met a chunk that is not valid UTF-8 and processed no chunk
\* after it persists and notifies nothing, and ends with the terminal error.
C36_InvalidChunkNotCommitted ==
    StoppedAtInvalidChunk =>
        /\ txRow = NoRow
        /\ notified = <<>>
        /\ txn # "committed"
        /\ store = store0
        /\ TaskEnded => (pc = "failed" /\ (rxAlive => ~EndedWithoutError))

\* C37: in a voice turn the first audio frame forwarded to the client was
\* yielded by a synthesis request that asked for the self-contained (WAV)
\* container.
C37_FirstAudioIsSelfContained ==
    (IsVoice(req.message_type) /\ DataFrames(channel) # <<>>) =>
        LET first == DataFrames(channel)[1].bytes[1]
        IN  ttsLog[SpeakPos(ttsLog, first.call)].container = "wav"

\* The turn truncates at entry index 0: the first turn of an empty
\* conversation, or an edit of turn 0.
TruncatesAtZero ==
    \/ req.message_id = 0
    \/ req.message_id = -1 /\ store0.conversation = <<>>

\* C38: a turn that commits changes the title only when it truncates at entry
\* index 0; an append to a conversation that has entries and an edit of a turn
\* n >= 1 commit the title as it was.
C38_TitleFrame ==
    [][(pc = "commit" /\ pc' = "done" /\ ~TruncatesAtZero) =>
          store'.title = store.title]_vars

C38_Witness ==
    /\ pc = "done"
    /\ req.message_id = 1
    /\ store # store0
    /\ store.title = store0.title
    /\ store.conversation[3] = UserEntry(user_message)

\* C39: in a voice turn the sentences drained so far followed by the buffer
\* are the deltas received so far, concatenated; and once the scan of a delta
\* has finished, no sentence boundary is left in the buffer.
C39_SegmenterConservation ==
    IsVoice(req.message_type) =>
        /\ Flatten(Sentences(ttsLog)) \o buffer = total_content
        /\ (failure # "send") => \A p \in DOMAIN buffer : ~BoundaryStart(buffer, p)

C39_Witness ==
    /\ IsVoice(req.message_type)
    /\ Len(Sentences(ttsLog)) = 2
    /\ buffer # <<>>
    /\ \E p \in DOMAIN buffer : buffer[p] = "."
    /\ Len(wire) = MaxChunks

\* A step of a controller operation run through handle_transaction.
ControllerStep == UNCHANGED turnVars /\ ctl'.op # "none"

\* C40: an operation run through handle_transaction is committed only if it
\* returned Ok, and then it is committed unless commit() itself fails, which is
\* reported as 500; when it returned an error the transaction is rolled back,
\* the caller gets that error, and the rows are as before; the rows change
\* only with a commit. Deleting a conversation the caller cannot see is 404.
C40_CommitIffOk ==
    [][ControllerStep =>
          /\ (ctl'.tx = "committed") => (ctl'.result = 200 /\ ctl'.status = 200)
          /\ (ctl'.result = 200 /\ ctl'.tx # "committed") =>
                (ctl'.tx = "rolledback" /\ ctl'.status = 500)
          /\ (ctl'.result \notin {0, 200}) =>
                (ctl'.tx = "rolledback" /\ ctl'.status = ctl'.result)
          /\ (ctl'.tx # "committed") => (store' = store /\ created' = created)
          /\ (/\ ctl'.op = "delete"
              /\ ~(store.exists /\ owner = ctl'.uid)
              /\ ctl'.result \notin {0, 500}) => (ctl'.status = 404)]_vars

C40_Witness ==
    /\ ctl.op = "delete"
    /\ ctl.result = 404
    /\ ctl.status = 404
    /\ ctl.tx = "rolledback"
    /\ store = NoRow
    /\ store0 = NoRow
    /\ Len(created) = MaxCreated

====
